---------------------------- MODULE Spec2Model ----------------------------
(***************************************************************************)
(* Model of the ablation-dashboard data loader (src/data_loader.py):       *)
(* the tolerant JSON parser, the instance-name normalizer, the per-run     *)
(* record extractor and the corpus loader.                                 *)
(*                                                                         *)
(* Text (file names, file contents) is a sequence of one-character         *)
(* strings, so that prefix/suffix tests, substring replacement and the     *)
(* regular-expression rewrites are computed character by character as      *)
(* Python computes them.                                                   *)
(***************************************************************************)
EXTENDS Integers, Sequences, FiniteSets, TLC

VARIABLES
    pc,           \* position of the running operation
    filename,     \* argument of extract_instance_name
    name1,        \* extract_instance_name(filename)
    name2,        \* extract_instance_name(name1)
    json_text,    \* argument of parse_custom_json
    parsed,       \* what parse_custom_json returned, or that it raised
    data,         \* argument of process_iteration_data (a parsed document)
    results_df,   \* what process_iteration_data returned, or that it raised
    record,       \* the summary record built from data, or that it raised
    corpus,       \* the directory tree load_ablation_data walks
    file_idx,     \* number of jy_* entries the loader has handled
    all_results,  \* the loader's list of records
    catalog,      \* what load_ablation_data returned
    query,        \* the catalog query the dashboard makes, with its arguments
    answer        \* what the query returned

vars == <<pc, filename, name1, name2, json_text, parsed, data, results_df,
          record, corpus, file_idx, all_results, catalog, query, answer>>

nameVars   == <<filename, name1, name2>>
parseVars  == <<json_text, parsed>>
extractVars == <<data, results_df, record>>
loadVars   == <<corpus, file_idx, all_results, catalog>>
queryVars  == <<query, answer>>

-----------------------------------------------------------------------------
(* Bounds of the model.                                                    *)

\* a file name is the concatenation of at most MaxChunks chunks
MaxChunks == 4

\* a JSON text is the concatenation of at most MaxTextChunks chunks
MaxTextChunks == 3

\* an array of a run document has at most MaxLen elements
MaxLen == 2

\* a directory tree holds at most MaxEntries entries
MaxEntries == 2

-----------------------------------------------------------------------------
(* Python string primitives on character sequences.                        *)

\* str.startswith
StartsWith(s, p) == Len(s) >= Len(p) /\ SubSeq(s, 1, Len(p)) = p

\* str.endswith
EndsWith(s, p) == Len(s) >= Len(p) /\ SubSeq(s, Len(s) - Len(p) + 1, Len(s)) = p

\* str.replace(old, new): every non-overlapping occurrence, leftmost first
RECURSIVE Replace(_, _, _)
Replace(s, old, new) ==
    IF s = <<>> THEN <<>>
    ELSE IF StartsWith(s, old)
         THEN new \o Replace(SubSeq(s, Len(old) + 1, Len(s)), old, new)
         ELSE <<Head(s)>> \o Replace(Tail(s), old, new)

\* s without its last n characters
DropLast(s, n) == SubSeq(s, 1, Len(s) - n)

\* s without its first n characters
DropFirst(s, n) == SubSeq(s, n + 1, Len(s))

\* whether sub occurs in s
RECURSIVE Contains(_, _)
Contains(s, sub) ==
    IF Len(s) < Len(sub) THEN FALSE
    ELSE StartsWith(s, sub) \/ Contains(Tail(s), sub)

-----------------------------------------------------------------------------
(* The literals of extract_instance_name.                                  *)

S_BACK_jy == <<"B", "A", "C", "K", "_", "j", "y", "_">>
S_jy      == <<"j", "y", "_">>
S_better  == <<"_", "b", "e", "t", "t", "e", "r">>
S_BACK    == <<"_", "B", "A", "C", "K">>
S_txt     == <<".", "t", "x", "t">>
S_json    == <<".", "j", "s", "o", "n">>

\* re.sub(r'\.(txt|json)$', '', filename): one trailing extension removed
StripExtension(s) ==
    IF EndsWith(s, S_txt) THEN DropLast(s, Len(S_txt))
    ELSE IF EndsWith(s, S_json) THEN DropLast(s, Len(S_json))
    ELSE s

\* the BACK_ branch with the wrong literal in replace()
extract_instance_name_wrong_literal(fname) ==
    LET base_name == StripExtension(fname) IN
    IF StartsWith(base_name, S_BACK_jy)
    THEN Replace(base_name, <<"B", "A", "C", "K", "_">>, <<>>) \o S_BACK
    ELSE IF EndsWith(base_name, S_better)
    THEN Replace(Replace(base_name, S_jy, <<>>), S_better, <<>>) \o S_better
    ELSE IF StartsWith(base_name, S_jy)
    THEN Replace(base_name, S_jy, <<>>)
    ELSE base_name

extract_instance_name(fname) ==
    LET base_name == StripExtension(fname) IN
    IF StartsWith(base_name, S_BACK_jy)
    THEN Replace(base_name, S_BACK_jy, <<>>) \o S_BACK
    ELSE IF EndsWith(base_name, S_better)
    THEN Replace(Replace(base_name, S_jy, <<>>), S_better, <<>>) \o S_better
    ELSE IF StartsWith(base_name, S_jy)
    THEN Replace(base_name, S_jy, <<>>)
    ELSE base_name

-----------------------------------------------------------------------------
(* File names the normalizer is applied to: concatenations of chunks.      *)

Chunks == {S_BACK_jy, S_jy, S_better, S_txt, S_json,
           <<"c">>, <<"j">>, <<"y">>, <<"_">>}

RECURSIVE Concat(_)
Concat(ss) == IF ss = <<>> THEN <<>> ELSE Head(ss) \o Concat(Tail(ss))

\* fname is the concatenation of at most MaxChunks chunks
IsFilename(fname) ==
    \E n \in 0..MaxChunks : \E cs \in [1..n -> Chunks] : fname = Concat(cs)

-----------------------------------------------------------------------------
(* Python values, as json.loads produces them.  A value is a record tagged *)
(* by its type: None, a number, float nan or infinity, a str (sequence of  *)
(* characters), a list (sequence of values) or a dict (function from keys, *)
(* which are character sequences, to values).                              *)

None      == [t |-> "none"]
NaN       == [t |-> "nan"]
PosInf    == [t |-> "inf"]
NegInf    == [t |-> "-inf"]
Num(n)    == [t |-> "num", v |-> n]
Bool(b)   == [t |-> "bool", v |-> b]
Str(cs)   == [t |-> "str", v |-> cs]
List(xs)  == [t |-> "list", v |-> xs]
Dict(f)   == [t |-> "dict", v |-> f]
EmptyDict == Dict(<<>>)

IsList(x) == x.t = "list"
IsDict(x) == x.t = "dict"
IsNum(x)  == x.t = "num"

\* d[key] = value on a dict's mapping
DictSet(f, key, value) ==
    [k \in DOMAIN f \cup {key} |-> IF k = key THEN value ELSE f[k]]

-----------------------------------------------------------------------------
(* json.loads, on the JSON the model's texts use: null, true, false,       *)
(* integers, the constants NaN / Infinity / -Infinity that Python's        *)
(* decoder accepts, strings without escapes, arrays and objects; blanks    *)
(* are the only whitespace.                                                *)

Digits == {"0", "1", "2", "3", "4", "5", "6", "7", "8", "9"}

DigitValue(c) ==
    CASE c = "0" -> 0 [] c = "1" -> 1 [] c = "2" -> 2 [] c = "3" -> 3
      [] c = "4" -> 4 [] c = "5" -> 5 [] c = "6" -> 6 [] c = "7" -> 7
      [] c = "8" -> 8 [] c = "9" -> 9

EndOfText == ""

\* the character at index i, or EndOfText past the end
At(s, i) == IF i >= 1 /\ i <= Len(s) THEN s[i] ELSE EndOfText

\* string[idx:idx+len(lit)] == lit
HasAt(s, i, lit) ==
    i + Len(lit) - 1 <= Len(s) /\ SubSeq(s, i, i + Len(lit) - 1) = lit

S_null      == <<"n", "u", "l", "l">>
S_true      == <<"t", "r", "u", "e">>
S_false     == <<"f", "a", "l", "s", "e">>
S_NaN       == <<"N", "a", "N">>
S_Infinity  == <<"I", "n", "f", "i", "n", "i", "t", "y">>
S_mInfinity == <<"-">> \o S_Infinity
S_Inf       == <<"I", "n", "f">>
S_mInf      == <<"-">> \o S_Inf

Parsed(value, next) == [ok |-> TRUE, v |-> value, i |-> next]
ParseError == [ok |-> FALSE]

RECURSIVE SkipWs(_, _)
SkipWs(s, i) == IF At(s, i) = " " THEN SkipWs(s, i + 1) ELSE i

\* index after the run of digits starting at i
RECURSIVE DigitsEnd(_, _)
DigitsEnd(s, i) == IF At(s, i) \in Digits THEN DigitsEnd(s, i + 1) ELSE i

\* value of the digits s[i..j-1]
RECURSIVE DigitsValue(_, _, _)
DigitsValue(s, i, j) ==
    IF j <= i THEN 0
    ELSE 10 * DigitsValue(s, i, j - 1) + DigitValue(s[j - 1])

\* NUMBER_RE: -?(0|[1-9][0-9]*), integers only
MatchNumber(s, i) ==
    LET neg   == At(s, i) = "-"
        first == IF neg THEN i + 1 ELSE i
        last  == IF At(s, first) = "0" THEN first + 1 ELSE DigitsEnd(s, first)
    IN  IF At(s, first) \in Digits
        THEN Parsed(Num(IF neg THEN 0 - DigitsValue(s, first, last)
                               ELSE DigitsValue(s, first, last)), last)
        ELSE ParseError

\* index of the closing quote of the string whose content starts at i, or 0
RECURSIVE QuoteEnd(_, _)
QuoteEnd(s, i) ==
    IF i > Len(s) THEN 0
    ELSE IF s[i] = "\"" THEN i
    ELSE QuoteEnd(s, i + 1)

\* scanstring: the content starts at i, just after the opening quote
ParseString(s, i) ==
    LET q == QuoteEnd(s, i) IN
    IF q = 0 THEN ParseError ELSE Parsed(Str(SubSeq(s, i, q - 1)), q + 1)

RECURSIVE ParseValue(_, _)
RECURSIVE ParseArrayItems(_, _, _)
RECURSIVE ParseObjectItems(_, _, _)

\* JSONArray after the first value position: values separated by commas
ParseArrayItems(s, i, acc) ==
    LET r == ParseValue(s, i) IN
    IF ~r.ok THEN ParseError
    ELSE LET j == SkipWs(s, r.i) IN
         IF At(s, j) = "]" THEN Parsed(List(Append(acc, r.v)), j + 1)
         ELSE IF At(s, j) = ","
              THEN ParseArrayItems(s, SkipWs(s, j + 1), Append(acc, r.v))
              ELSE ParseError

\* JSONObject at a key position: "key" : value pairs separated by commas
ParseObjectItems(s, i, acc) ==
    IF At(s, i) # "\"" THEN ParseError
    ELSE LET k == ParseString(s, i + 1) IN
         IF ~k.ok THEN ParseError
         ELSE LET c == SkipWs(s, k.i) IN
              IF At(s, c) # ":" THEN ParseError
              ELSE LET r == ParseValue(s, SkipWs(s, c + 1)) IN
                   IF ~r.ok THEN ParseError
                   ELSE LET j  == SkipWs(s, r.i)
                            d  == DictSet(acc, k.v.v, r.v)
                        IN  IF At(s, j) = "}" THEN Parsed(Dict(d), j + 1)
                            ELSE IF At(s, j) = ","
                                 THEN ParseObjectItems(s, SkipWs(s, j + 1), d)
                                 ELSE ParseError

\* scan_once
ParseValue(s, i) ==
    LET c == At(s, i) IN
    IF c = "\"" THEN ParseString(s, i + 1)
    ELSE IF c = "{"
    THEN LET j == SkipWs(s, i + 1) IN
         IF At(s, j) = "}" THEN Parsed(EmptyDict, j + 1)
         ELSE ParseObjectItems(s, j, <<>>)
    ELSE IF c = "["
    THEN LET j == SkipWs(s, i + 1) IN
         IF At(s, j) = "]" THEN Parsed(List(<<>>), j + 1)
         ELSE ParseArrayItems(s, j, <<>>)
    ELSE IF HasAt(s, i, S_null) THEN Parsed(None, i + Len(S_null))
    ELSE IF HasAt(s, i, S_true) THEN Parsed(Bool(TRUE), i + Len(S_true))
    ELSE IF HasAt(s, i, S_false) THEN Parsed(Bool(FALSE), i + Len(S_false))
    ELSE IF MatchNumber(s, i).ok THEN MatchNumber(s, i)
    ELSE IF HasAt(s, i, S_NaN) THEN Parsed(NaN, i + Len(S_NaN))
    ELSE IF HasAt(s, i, S_Infinity) THEN Parsed(PosInf, i + Len(S_Infinity))
    ELSE IF HasAt(s, i, S_mInfinity) THEN Parsed(NegInf, i + Len(S_mInfinity))
    ELSE ParseError

\* json.loads: one value, blanks around it, nothing after it; ok is FALSE
\* where Python raises JSONDecodeError
JsonLoads(s) ==
    LET r == ParseValue(s, SkipWs(s, 1)) IN
    IF r.ok /\ SkipWs(s, r.i) = Len(s) + 1 THEN [ok |-> TRUE, v |-> r.v]
    ELSE ParseError

-----------------------------------------------------------------------------
(* re.sub with the patterns of parse_custom_json.                          *)

WordChars ==
    {"a", "b", "c", "d", "e", "f", "g", "h", "i", "j", "k", "l", "m", "n",
     "o", "p", "q", "r", "s", "t", "u", "v", "w", "x", "y", "z",
     "A", "B", "C", "D", "E", "F", "G", "H", "I", "J", "K", "L", "M", "N",
     "O", "P", "Q", "R", "S", "T", "U", "V", "W", "X", "Y", "Z", "_"}
    \cup Digits

\* \b between s[k] and s[k+1]: exactly one side is a word character
WordBoundary(s, k) == (At(s, k) \in WordChars) # (At(s, k + 1) \in WordChars)

\* \b lit \b matches at index i
MatchesAt(s, i, lit) ==
    /\ WordBoundary(s, i - 1)
    /\ HasAt(s, i, lit)
    /\ WordBoundary(s, i + Len(lit) - 1)

\* re.sub(r'\b(alts[1]|alts[2]|...)\b', repl, s) from index i on: at each
\* index the alternatives are tried in order, matches do not overlap
RECURSIVE ReSubFrom(_, _, _, _)
ReSubFrom(s, i, alts, repl) ==
    IF i > Len(s) THEN <<>>
    ELSE LET hits == { a \in 1..Len(alts) : MatchesAt(s, i, alts[a]) } IN
         IF hits = {}
         THEN <<s[i]>> \o ReSubFrom(s, i + 1, alts, repl)
         ELSE LET a == CHOOSE x \in hits : \A y \in hits : x <= y IN
              repl \o ReSubFrom(s, i + Len(alts[a]), alts, repl)

ReSub(alts, repl, s) == ReSubFrom(s, 1, alts, repl)

\* the text json.loads is given: the four rewrites in the order of the code;
\* -?Inf tries the form with the minus sign first
FixedText(text) ==
    LET t1 == ReSub(<<S_NaN>>, S_null, text)
        t2 == ReSub(<<S_Infinity>>, S_null, t1)
        t3 == ReSub(<<S_mInfinity>>, S_null, t2)
    IN  ReSub(<<S_mInf, S_Inf>>, S_null, t3)

parse_custom_json(text) == JsonLoads(FixedText(text))

-----------------------------------------------------------------------------
(* Names of the document fields and of the table columns.                  *)

K_lblp_lower ==
    <<"l", "b", "l", "p", "_", "l", "o", "w", "e", "r">>
K_ub_lp ==
    <<"u", "b", "_", "l", "p">>
K_did_compress ==
    <<"d", "i", "d", "_", "c", "o", "m", "p", "r", "e", "s", "s">>
K_lp_time_project ==
    <<"l", "p", "_", "t", "i", "m", "e", "_", "p", "r", "o", "j", "e", "c", "t">>
K_lp_time_LB ==
    <<"l", "p", "_", "t", "i", "m", "e", "_", "L", "B">>
K_time_compress ==
    <<"t", "i", "m", "e", "_", "c", "o", "m", "p", "r", "e", "s", "s">>
K_prob_sizes_at_start ==
    <<"p", "r", "o", "b", "_", "s", "i", "z", "e", "s", "_", "a", "t", "_", "s", "t", "a", "r", "t">>
K_prob_sizes_after_compress ==
    <<"p", "r", "o", "b", "_", "s", "i", "z", "e", "s", "_", "a", "f", "t", "e", "r", "_", "c", "o", "m", "p", "r", "e", "s", "s">>
K_prob_sizes_after_split ==
    <<"p", "r", "o", "b", "_", "s", "i", "z", "e", "s", "_", "a", "f", "t", "e", "r", "_", "s", "p", "l", "i", "t">>
K_cuttingPlaneBendInfo ==
    <<"c", "u", "t", "t", "i", "n", "g", "P", "l", "a", "n", "e", "B", "e", "n", "d", "I", "n", "f", "o">>
K_timeGraph ==
    <<"t", "i", "m", "e", "G", "r", "a", "p", "h">>
K_ngGraph ==
    <<"n", "g", "G", "r", "a", "p", "h">>
K_tot_cut_value ==
    <<"t", "o", "t", "_", "c", "u", "t", "_", "v", "a", "l", "u", "e">>
K_TOT_gen_cut ==
    <<"T", "O", "T", "_", "g", "e", "n", "_", "c", "u", "t">>
K_tot_time_opt ==
    <<"t", "o", "t", "_", "t", "i", "m", "e", "_", "o", "p", "t">>
K_max_time_opt ==
    <<"m", "a", "x", "_", "t", "i", "m", "e", "_", "o", "p", "t">>
K_ROOT_LP_PRIOR_ADDING_CUTS ==
    <<"R", "O", "O", "T", "_", "L", "P", "_", "P", "R", "I", "O", "R", "_", "A", "D", "D", "I", "N", "G", "_", "C", "U", "T", "S">>
K_OUR_ilp_objective ==
    <<"O", "U", "R", "_", "i", "l", "p", "_", "o", "b", "j", "e", "c", "t", "i", "v", "e">>
K_OUR_ilp_time ==
    <<"O", "U", "R", "_", "i", "l", "p", "_", "t", "i", "m", "e">>
K_iteration ==
    <<"i", "t", "e", "r", "a", "t", "i", "o", "n">>
K_cumulative_time ==
    <<"c", "u", "m", "u", "l", "a", "t", "i", "v", "e", "_", "t", "i", "m", "e">>
K_cut_tot_cut_value ==
    <<"c", "u", "t", "_", "t", "o", "t", "_", "c", "u", "t", "_", "v", "a", "l", "u", "e">>
K_cut_TOT_gen_cut ==
    <<"c", "u", "t", "_", "T", "O", "T", "_", "g", "e", "n", "_", "c", "u", "t">>
K_cut_tot_time_opt ==
    <<"c", "u", "t", "_", "t", "o", "t", "_", "t", "i", "m", "e", "_", "o", "p", "t">>
K_cut_max_time_opt ==
    <<"c", "u", "t", "_", "m", "a", "x", "_", "t", "i", "m", "e", "_", "o", "p", "t">>

-----------------------------------------------------------------------------
(* Python built-ins on values.  An operation that raises in Python gives   *)
(* Raised here.                                                            *)

Raised == [ok |-> FALSE]
Returned(x) == [ok |-> TRUE, v |-> x]

\* len() is defined for str, list and dict and raises TypeError otherwise
HasLen(x) == x.t \in {"str", "list", "dict"}
PyLen(x) == IF IsDict(x) THEN Cardinality(DOMAIN x.v) ELSE Len(x.v)

\* bool(x)
Truthy(x) ==
    CASE x.t = "none" -> FALSE
      [] x.t = "num"  -> x.v # 0
      [] x.t = "bool" -> x.v
      [] x.t \in {"str", "list"} -> Len(x.v) > 0
      [] x.t = "dict" -> DOMAIN x.v # {}
      [] OTHER -> TRUE

\* key in data: a dict has the key, a list has the str as an element, a str
\* has it as a substring; raises TypeError for anything else
SupportsIn(x) == x.t \in {"dict", "list", "str"}
PyIn(key, x) ==
    CASE IsDict(x) -> key \in DOMAIN x.v
      [] IsList(x) -> \E i \in 1..Len(x.v) : x.v[i].t = "str" /\ x.v[i].v = key
      [] OTHER     -> Contains(x.v, key)

\* data.get(key, default) on a dict
Get(d, key, default) == IF key \in DOMAIN d.v THEN d.v[key] ELSE default

\* pandas isna(): None and nan are missing
IsNa(x) == x.t \in {"none", "nan"}

\* sum(xs) of a list of numbers; raises TypeError on a None element or on a
\* value that is not a list
CanSum(x) == IsList(x) /\ \A i \in 1..Len(x.v) : IsNum(x.v[i])
RECURSIVE SumSeq(_)
SumSeq(xs) == IF xs = <<>> THEN 0 ELSE Head(xs).v + SumSeq(Tail(xs))

-----------------------------------------------------------------------------
(* process_iteration_data.  A DataFrame is a function from column names to *)
(* columns, each a sequence of cells; pd.DataFrame() is the empty function.*)

EmptyFrame == <<>>

\* DataFrame.empty
FrameEmpty(df) == DOMAIN df = {} \/ \A c \in DOMAIN df : df[c] = <<>>

\* results_df[name] = column
WithColumn(df, name, column) ==
    [c \in DOMAIN df \cup {name} |-> IF c = name THEN column ELSE df[c]]

\* [np.nan] * iterations
NanColumn(n) == [i \in 1..n |-> NaN]

\* range(1, iterations + 1), zero-based by mistake
IterationColumn_zero_based(n) == [i \in 1..n |-> Num(i - 1)]

\* range(1, iterations + 1)
IterationColumn(n) == [i \in 1..n |-> Num(i)]

core_arrays ==
    <<K_lblp_lower, K_ub_lp, K_did_compress,
      K_lp_time_project, K_lp_time_LB, K_time_compress>>

\* the column a value gives when assigned to a table of n rows: a list
\* element by element, a scalar in every row
AsColumn(x, n) == IF IsList(x) THEN x.v ELSE [i \in 1..n |-> x]

\* the core column cut or padded to the table's length instead of dropped
CoreColumn_resized(doc, array_name, n) ==
    IF array_name \in DOMAIN doc.v /\ IsList(doc.v[array_name])
    THEN [i \in 1..n |-> IF i <= Len(doc.v[array_name].v)
                           THEN doc.v[array_name].v[i] ELSE NaN]
    ELSE NanColumn(n)

\* lines 92-96: the array itself when present with exactly n elements, nan
\* in every row otherwise (the caller has checked that len() is defined)
CoreColumn(doc, array_name, n) ==
    IF array_name \in DOMAIN doc.v /\ PyLen(doc.v[array_name]) = n
    THEN AsColumn(doc.v[array_name], n)
    ELSE NanColumn(n)

\* the loop of lines 91-96 raises TypeError when a present core field has
\* no len()
CoreArraysRaise(doc) ==
    \E a \in 1..Len(core_arrays) :
        /\ core_arrays[a] \in DOMAIN doc.v
        /\ ~HasLen(doc.v[core_arrays[a]])

RECURSIVE AddCoreColumns(_, _, _, _)
AddCoreColumns(df, doc, a, n) ==
    IF a > Len(core_arrays) THEN df
    ELSE AddCoreColumns(
             WithColumn(df, core_arrays[a], CoreColumn(doc, core_arrays[a], n)),
             doc, a + 1, n)

\* item.get(key, np.nan) if isinstance(item, dict) else np.nan
ItemGet(item, key) == IF IsDict(item) THEN Get(item, key, NaN) ELSE NaN

\* one column extracted from a list-of-dicts field (lines 103-128, 131-158):
\* the sub-field of each item when the field is a list of n items, nan in
\* every row otherwise
SubFieldColumn(doc, field, key, n) ==
    IF /\ field \in DOMAIN doc.v
       /\ IsList(doc.v[field])
       /\ Len(doc.v[field].v) = n
    THEN [i \in 1..n |-> ItemGet(doc.v[field].v[i], key)]
    ELSE NanColumn(n)

stage_names ==
    <<K_prob_sizes_at_start, K_prob_sizes_after_compress, K_prob_sizes_after_split>>
stage_suffixes ==
    <<<<"s", "t", "a", "r", "t">>,
      <<"c", "o", "m", "p", "r", "e", "s", "s">>,
      <<"s", "p", "l", "i", "t">>>>

RECURSIVE AddStageColumns(_, _, _, _)
AddStageColumns(df, doc, k, n) ==
    IF k > Len(stage_names) THEN df
    ELSE AddStageColumns(
             WithColumn(
                 WithColumn(df, stage_suffixes[k] \o <<"_">> \o K_timeGraph,
                            SubFieldColumn(doc, stage_names[k], K_timeGraph, n)),
                 stage_suffixes[k] \o <<"_">> \o K_ngGraph,
                 SubFieldColumn(doc, stage_names[k], K_ngGraph, n)),
             doc, k + 1, n)

AddCutColumns(df, doc, n) ==
    LET col(key) == SubFieldColumn(doc, K_cuttingPlaneBendInfo, key, n) IN
    WithColumn(WithColumn(WithColumn(WithColumn(df,
        K_cut_tot_cut_value, col(K_tot_cut_value)),
        K_cut_TOT_gen_cut, col(K_TOT_gen_cut)),
        K_cut_tot_time_opt, col(K_tot_time_opt)),
        K_cut_max_time_opt, col(K_max_time_opt))

\* Series.fillna(0) on one cell
FillNa0(x) == IF IsNa(x) THEN Num(0) ELSE x

\* Series.cumsum() of a column of numbers
RECURSIVE CumSum(_)
CumSum(col) ==
    IF col = <<>> THEN <<>>
    ELSE LET rest == CumSum(DropLast(col, 1)) IN
         Append(rest, Num((IF rest = <<>> THEN 0 ELSE rest[Len(rest)].v)
                          + col[Len(col)].v))

\* the running sum without fillna(0): a missing entry makes the sum missing
\* from its row on
CumulativeTime_no_fillna(df, n) ==
    IF K_lp_time_LB \in DOMAIN df /\ K_lp_time_project \in DOMAIN df
    THEN LET filled == [i \in 1..n |->
                 Num(FillNa0(df[K_lp_time_LB][i]).v + FillNa0(df[K_lp_time_project][i]).v)]
             missing(i) == \E j \in 1..i :
                 IsNa(df[K_lp_time_LB][j]) \/ IsNa(df[K_lp_time_project][j])
         IN  [i \in 1..n |-> IF missing(i) THEN NaN ELSE CumSum(filled)[i]]
    ELSE NanColumn(n)

\* lines 161-166
CumulativeTime(df, n) ==
    IF K_lp_time_LB \in DOMAIN df /\ K_lp_time_project \in DOMAIN df
    THEN CumSum([i \in 1..n |->
             Num(FillNa0(df[K_lp_time_LB][i]).v + FillNa0(df[K_lp_time_project][i]).v)])
    ELSE NanColumn(n)

\* process_iteration_data(data): Returned(table), or Raised
process_iteration_data(doc) ==
    IF ~SupportsIn(doc) THEN Raised
    ELSE IF ~PyIn(K_lblp_lower, doc) THEN Returned(EmptyFrame)
    ELSE IF ~IsDict(doc) THEN Raised
    ELSE IF ~HasLen(doc.v[K_lblp_lower]) THEN Raised
    ELSE LET iterations == PyLen(doc.v[K_lblp_lower]) IN
         IF iterations = 0 THEN Returned(EmptyFrame)
         ELSE IF CoreArraysRaise(doc) THEN Raised
         ELSE LET df1 == WithColumn(EmptyFrame, K_iteration, IterationColumn(iterations))
                  df2 == AddCoreColumns(df1, doc, 1, iterations)
                  df3 == AddStageColumns(df2, doc, 1, iterations)
                  df4 == AddCutColumns(df3, doc, iterations)
              IN  Returned(WithColumn(df4, K_cumulative_time,
                                      CumulativeTime(df4, iterations)))

-----------------------------------------------------------------------------
(* The summary record of one run: lines 238-272 of load_ablation_data.     *)

S_100     == <<"1", "0", "0">>
S_50      == <<"5", "0">>
S_Unknown == <<"U", "n", "k", "n", "o", "w", "n">>

\* lines 239-244
NumCust(dataset) ==
    IF Contains(dataset, S_100) THEN 100
    ELSE IF Contains(dataset, S_50) THEN 50
    ELSE 25

\* lines 247-248: re.match(r'^([CR][12])', dataset)
InstanceType(dataset) ==
    IF Len(dataset) >= 2 /\ dataset[1] \in {"C", "R"} /\ dataset[2] \in {"1", "2"}
    THEN SubSeq(dataset, 1, 2)
    ELSE S_Unknown

\* line 258, taking the last non-missing element instead of the last one
RECURSIVE LastNonMissing(_)
LastNonMissing(xs) ==
    IF xs = <<>> THEN NaN
    ELSE IF ~IsNa(xs[Len(xs)]) THEN xs[Len(xs)]
    ELSE LastNonMissing(DropLast(xs, 1))

FinalLb_skipping_missing(doc) ==
    IF Truthy(Get(doc, K_lblp_lower, None))
    THEN LastNonMissing(Get(doc, K_lblp_lower, None).v)
    ELSE NaN

\* line 258: data.get('lblp_lower', [np.nan])[-1] if data.get('lblp_lower')
\* else np.nan (the caller has checked that [-1] is defined)
FinalLb(doc) ==
    IF Truthy(Get(doc, K_lblp_lower, None))
    THEN LET x == Get(doc, K_lblp_lower, None) IN
         IF IsList(x) THEN x.v[Len(x.v)] ELSE Str(<<x.v[Len(x.v)]>>)
    ELSE NaN

\* x[-1] raises for a truthy value that is no list and no str
FinalLbRaises(doc) ==
    LET x == Get(doc, K_lblp_lower, None) IN
    Truthy(x) /\ x.t \notin {"list", "str"}

\* lines 261-264
TotalLpTime(doc) ==
    SumSeq(Get(doc, K_lp_time_LB, List(<<>>)).v)
    + SumSeq(Get(doc, K_lp_time_project, List(<<>>)).v)

TotalLpTimeRaises(doc) ==
    ~(/\ CanSum(Get(doc, K_lp_time_LB, List(<<>>)))
      /\ CanSum(Get(doc, K_lp_time_project, List(<<>>))))

\* lines 266, 271-272: the sum of the cut-count column with missing as 0
CutsSummed(iteration_data) ==
    ~FrameEmpty(iteration_data) /\ K_cut_TOT_gen_cut \in DOMAIN iteration_data

TotalCuts(iteration_data) ==
    IF CutsSummed(iteration_data)
    THEN SumSeq([i \in DOMAIN iteration_data[K_cut_TOT_gen_cut] |->
                    FillNa0(iteration_data[K_cut_TOT_gen_cut][i])])
    ELSE 0

TotalCutsRaises(iteration_data) ==
    /\ CutsSummed(iteration_data)
    /\ \E i \in DOMAIN iteration_data[K_cut_TOT_gen_cut] :
           ~IsNum(FillNa0(iteration_data[K_cut_TOT_gen_cut][i]))

\* whether building the record raises
RecordRaises(doc, iteration_data) ==
    IF ~IsDict(doc) THEN TRUE
    ELSE \/ FinalLbRaises(doc)
         \/ TotalLpTimeRaises(doc)
         \/ ~HasLen(Get(doc, K_lblp_lower, List(<<>>)))
         \/ TotalCutsRaises(iteration_data)

\* the record of lines 251-268 with total_cuts as set by lines 271-272
BuildRecord(dataset, condition, fname, doc, iteration_data) ==
    [dataset        |-> dataset,
     num_cust       |-> NumCust(dataset),
     instance_type  |-> InstanceType(dataset),
     condition      |-> condition,
     instance       |-> extract_instance_name(fname),
     root_lp        |-> Get(doc, K_ROOT_LP_PRIOR_ADDING_CUTS, NaN),
     final_lb       |-> FinalLb(doc),
     ilp_objective  |-> Get(doc, K_OUR_ilp_objective, NaN),
     ilp_time       |-> Get(doc, K_OUR_ilp_time, NaN),
     total_lp_time  |-> TotalLpTime(doc),
     iterations     |-> PyLen(Get(doc, K_lblp_lower, List(<<>>))),
     total_cuts     |-> TotalCuts(iteration_data),
     iteration_data |-> iteration_data]

-----------------------------------------------------------------------------
(* load_ablation_data: the fixed lists of lines 183-191.                   *)

D_C1_100 ==
    <<"C", "1", "_", "n", "u", "m", "C", "u", "s", "t", "_", "1", "0",
      "0">>
D_RC1_25 ==
    <<"R", "C", "1", "_", "n", "u", "m", "C", "u", "s", "t", "_", "2",
      "5">>

C_normal ==
    <<"n", "o", "r", "m", "a", "l">>
C_no_cuts_or_graphs ==
    <<"n", "o", "_", "c", "u", "t", "s", "_", "o", "r", "_", "g", "r",
      "a", "p", "h", "s">>

datasets ==
    <<<<"C", "1", "_", "n", "u", "m", "C", "u", "s", "t", "_", "2", "5">>,
      <<"C", "1", "_", "n", "u", "m", "C", "u", "s", "t", "_", "5", "0">>,
      D_C1_100,
      <<"C", "2", "_", "n", "u", "m", "C", "u", "s", "t", "_", "1", "0", "0">>,
      <<"R", "1", "_", "n", "u", "m", "C", "u", "s", "t", "_", "5", "0">>,
      <<"R", "1", "_", "n", "u", "m", "C", "u", "s", "t", "_", "1", "0", "0">>,
      D_RC1_25,
      <<"R", "C", "1", "_", "n", "u", "m", "C", "u", "s", "t", "_", "5", "0">>,
      <<"R", "C", "1", "_", "n", "u", "m", "C", "u", "s", "t", "_", "1", "0", "0">>,
      <<"R", "C", "2", "_", "n", "u", "m", "C", "u", "s", "t", "_", "2", "5">>,
      <<"R", "C", "2", "_", "n", "u", "m", "C", "u", "s", "t", "_", "5", "0">>>>

base_conditions ==
    <<C_normal,
      <<"c", "u", "t", "s", "_", "o", "f", "f", "_", "g", "r", "a", "p", "h", "s", "_", "o", "n">>,
      <<"c", "u", "t", "s", "_", "o", "f", "f", "_", "g", "r", "a", "p", "h", "_", "o", "n">>,
      <<"n", "o", "_", "u", "b", "_", "u", "s", "e", "_", "r", "e", "m", "o", "v", "e">>,
      C_no_cuts_or_graphs>>

-----------------------------------------------------------------------------
(* The directory tree.  A corpus says whether the base directory exists    *)
(* and lists its entries <base>/<dataset>/<condition>/<name> in directory- *)
(* listing order.  An entry is a regular file (readable or not, with its   *)
(* text), a directory (with the files *.json and *.txt it holds, in the    *)
(* order glob lists them) or something else.                               *)

File(readable, text) == [readable |-> readable, text |-> text]

\* the texts of the files of the model's directory trees
T_two ==
    <<"{", "\"", "l", "b", "l", "p", "_", "l", "o", "w", "e", "r", "\"",
      ":", "[", "1", ",", "2", "]", "}">>
T_last_nan ==
    <<"{", "\"", "l", "b", "l", "p", "_", "l", "o", "w", "e", "r", "\"",
      ":", "[", "1", ",", "N", "a", "N", "]", "}">>
T_no_rows ==
    <<"{", "\"", "l", "b", "l", "p", "_", "l", "o", "w", "e", "r", "\"",
      ":", "[", "]", "}">>
T_empty ==
    <<"{", "}">>
T_time_nan ==
    <<"{", "\"", "l", "b", "l", "p", "_", "l", "o", "w", "e", "r", "\"",
      ":", "[", "1", "]", ",", "\"", "l", "p", "_", "t", "i", "m",
      "e", "_", "L", "B", "\"", ":", "[", "N", "a", "N", "]", "}">>
T_minus_inf ==
    <<"{", "\"", "l", "b", "l", "p", "_", "l", "o", "w", "e", "r", "\"",
      ":", "[", "-", "I", "n", "f", "]", "}">>
T_truncated ==
    <<"{", "\"", "l", "b", "l", "p", "_", "l", "o", "w", "e", "r", "\"",
      ":">>
T_list ==
    <<"[", "1", "]">>

FileTexts ==
    {T_two, T_last_nan, T_no_rows, T_empty, T_time_nan, T_minus_inf,
     T_truncated, T_list}

\* parse_custom_json of each of these texts, computed once
ParsedText == [t \in FileTexts |-> parse_custom_json(t)]

\* read_one_file: the parsed document, {} when reading or parsing fails
read_one_file(file) ==
    IF ~file.readable THEN EmptyDict
    ELSE IF ~ParsedText[file.text].ok THEN EmptyDict
    ELSE ParsedText[file.text].v

\* lines 232-233 left out: an empty document goes on to be processed
HasData_no_empty_check(entry) ==
    CASE entry.kind = "file" -> TRUE
      [] entry.kind = "dir"  -> entry.json_files # <<>>
      [] OTHER               -> FALSE

\* lines 220-233: the document of an entry; nothing for an entry that is no
\* file and no directory, for a directory without a .json or .txt file, and
\* for a document that is empty
HasData(entry) ==
    CASE entry.kind = "file" -> Truthy(read_one_file(entry.file))
      [] entry.kind = "dir"  -> /\ entry.json_files # <<>>
                                /\ Truthy(read_one_file(entry.json_files[1]))
      [] OTHER               -> FALSE

EntryData(entry) ==
    IF entry.kind = "file" THEN read_one_file(entry.file)
    ELSE read_one_file(entry.json_files[1])

\* lines 236-272 raise for this entry's document (caught at line 276)
ProcessingRaises(entry) ==
    LET doc == EntryData(entry) IN
    IF ~process_iteration_data(doc).ok THEN TRUE
    ELSE RecordRaises(doc, process_iteration_data(doc).v)

\* the record appended at line 274
EntryRecord(entry) ==
    LET doc == EntryData(entry) IN
    BuildRecord(entry.dataset, entry.condition, entry.name, doc,
                process_iteration_data(doc).v)

\* line 198: the dataset directory exists
DatasetDirExists(fsys, dataset) ==
    \E i \in 1..Len(fsys.entries) : fsys.entries[i].dataset = dataset

\* line 203: the condition directories of a dataset
AvailableConditions(fsys, dataset) ==
    { fsys.entries[i].condition :
        i \in { j \in 1..Len(fsys.entries) : fsys.entries[j].dataset = dataset } }

\* line 214: condition_dir.glob("jy_*"), as indices into the listing
GlobJy(fsys, dataset, condition) ==
    SelectSeq([i \in 1..Len(fsys.entries) |-> i],
              LAMBDA i : /\ fsys.entries[i].dataset = dataset
                         /\ fsys.entries[i].condition = condition
                         /\ StartsWith(fsys.entries[i].name, S_jy))

\* lines 204-214: the files of one dataset, condition by condition
DatasetFiles(fsys, dataset) ==
    Concat([c \in 1..Len(base_conditions) |->
               IF base_conditions[c] \in AvailableConditions(fsys, dataset)
               THEN GlobJy(fsys, dataset, base_conditions[c])
               ELSE <<>>])

\* lines 195-217: the entries the three nested loops visit, in order
WorkList(fsys) ==
    Concat([d \in 1..Len(datasets) |->
               IF DatasetDirExists(fsys, datasets[d])
               THEN DatasetFiles(fsys, datasets[d])
               ELSE <<>>])

-----------------------------------------------------------------------------
NoValue == <<>>

IdleName    == filename = NoValue /\ name1 = NoValue /\ name2 = NoValue
IdleParse   == json_text = NoValue /\ parsed = NoValue
IdleExtract == data = NoValue /\ results_df = NoValue /\ record = NoValue
IdleLoad    == corpus = NoValue /\ file_idx = 0 /\ all_results = <<>>
               /\ catalog = NoValue
IdleQuery   == query = NoValue /\ answer = NoValue

-----------------------------------------------------------------------------
(* Specification SpecName: extract_instance_name applied once, then again  *)
(* to its own result.                                                      *)

InitName ==
    /\ pc = "name"
    /\ IsFilename(filename)
    /\ name1 = NoValue /\ name2 = NoValue
    /\ IdleParse /\ IdleExtract /\ IdleLoad /\ IdleQuery

Normalize ==
    /\ pc = "name"
    /\ name1' = extract_instance_name(filename)
    /\ pc' = "named"
    /\ UNCHANGED <<filename, name2, parseVars, extractVars, loadVars, queryVars>>

NormalizeAgain ==
    /\ pc = "named"
    /\ name2' = extract_instance_name(name1)
    /\ pc' = "renamed"
    /\ UNCHANGED <<filename, name1, parseVars, extractVars, loadVars, queryVars>>

NextName == Normalize \/ NormalizeAgain

SpecName == InitName /\ [][NextName]_vars

-----------------------------------------------------------------------------
(* Specification SpecParse: parse_custom_json applied to a text.           *)

TextChunks ==
    {<<"[">>, <<"]">>, <<",">>, <<" ">>, <<"1">>, S_null,
     S_NaN, S_Infinity, S_mInfinity, S_Inf, S_mInf,
     <<"{", "\"", "a", "\"", ":">>, <<"}">>}

\* text is the concatenation of at most MaxTextChunks chunks
IsText(text) ==
    \E n \in 0..MaxTextChunks : \E cs \in [1..n -> TextChunks] : text = Concat(cs)

InitParse ==
    /\ pc = "parse"
    /\ IsText(json_text)
    /\ parsed = NoValue
    /\ IdleName /\ IdleExtract /\ IdleLoad /\ IdleQuery

\* parse_custom_json returns a document
ParseReturns ==
    /\ pc = "parse"
    /\ parse_custom_json(json_text).ok
    /\ parsed' = parse_custom_json(json_text)
    /\ pc' = "parsed"
    /\ UNCHANGED <<json_text, nameVars, extractVars, loadVars, queryVars>>

\* parse_custom_json raises JSONDecodeError
ParseRaises ==
    /\ pc = "parse"
    /\ ~parse_custom_json(json_text).ok
    /\ parsed' = ParseError
    /\ pc' = "parsed"
    /\ UNCHANGED <<json_text, nameVars, extractVars, loadVars, queryVars>>

NextParse == ParseReturns \/ ParseRaises

SpecParse == InitParse /\ [][NextParse]_vars

-----------------------------------------------------------------------------
(* Claims about parse_custom_json.                                         *)

NonStandardTokens == <<S_mInfinity, S_Infinity, S_mInf, S_Inf, S_NaN>>

\* tok stands alone at index i: no word character touches it
StandaloneAt(s, i, tok) ==
    /\ At(s, i - 1) \notin WordChars
    /\ HasAt(s, i, tok)
    /\ At(s, i + Len(tok)) \notin WordChars

\* the text with every standalone non-standard token replaced by null
RECURSIVE NeutralFrom(_, _)
NeutralFrom(s, i) ==
    IF i > Len(s) THEN <<>>
    ELSE LET hits == { a \in 1..Len(NonStandardTokens) :
                         StandaloneAt(s, i, NonStandardTokens[a]) } IN
         IF hits = {}
         THEN <<s[i]>> \o NeutralFrom(s, i + 1)
         ELSE LET a == CHOOSE x \in hits : \A y \in hits : x <= y IN
              S_null \o NeutralFrom(s, i + Len(NonStandardTokens[a]))

Neutral(s) == NeutralFrom(s, 1)

\* C5: a text that is valid JSON once its standalone NaN, Infinity,
\* -Infinity, Inf and -Inf tokens are read as null is parsed successfully,
\* and the document has null at each of those positions.
C5_TokensBecomeNull ==
    pc = "parsed" =>
        LET ref == Neutral(json_text) IN
        (ref # json_text /\ JsonLoads(ref).ok) =>
            (parsed.ok /\ parsed.v = JsonLoads(ref).v)

-----------------------------------------------------------------------------
(* Specification SpecExtract: the record extractor applied to one parsed   *)
(* run document: process_iteration_data, then the summary record.          *)

Absent == [t |-> "absent"]

\* sequences over E of at most n elements
SeqsUpTo(E, n) == UNION { [1..k -> E] : k \in 0..n }

\* what a field of a document can hold: nothing, null, a scalar, or a
\* sequence of elements
FieldValues(E) ==
    {Absent, None, Num(7)} \cup { List(xs) : xs \in SeqsUpTo(E, MaxLen) }

Elems      == {None, Num(1), Num(2)}
FewElems   == {None, Num(1)}
StageItems ==
    {Num(1), EmptyDict,
     Dict((K_timeGraph :> Num(1)) @@ (K_ngGraph :> Num(2))),
     Dict((K_timeGraph :> None))}
CutItems ==
    {Num(1), EmptyDict,
     Dict((K_TOT_gen_cut :> Num(2)) @@ (K_tot_cut_value :> Num(1))),
     Dict((K_TOT_gen_cut :> None) @@ (K_max_time_opt :> Num(1)))}

\* lblp_lower of 0..MaxLen ones, or absent
PlainLower == {Absent} \cup { List([i \in 1..k |-> Num(1)]) : k \in 0..MaxLen }

\* the document holding the fields of f that are not Absent
MakeDoc(f) == Dict([k \in { x \in DOMAIN f : f[x] # Absent } |-> f[k]])

\* doc varies the anchor array and the two LP time arrays
IsDocTimes(doc) ==
    \E a \in FieldValues(Elems), b \in FieldValues(Elems), c \in FieldValues(FewElems) :
        doc = MakeDoc((K_lblp_lower :> a) @@ (K_lp_time_LB :> b)
                      @@ (K_lp_time_project :> c))

\* doc varies the anchor array and one other core array
IsDocCore(doc) ==
    \E a \in FieldValues(Elems), b \in FieldValues(Elems),
       k \in {K_ub_lp, K_did_compress, K_time_compress} :
        doc = MakeDoc((K_lblp_lower :> a) @@ (k :> b))

\* doc varies one list-of-records field
IsDocStages(doc) ==
    \/ \E a \in PlainLower, b \in FieldValues(StageItems),
          k \in {K_prob_sizes_at_start, K_prob_sizes_after_compress,
                 K_prob_sizes_after_split} :
           doc = MakeDoc((K_lblp_lower :> a) @@ (k :> b))
    \/ \E a \in PlainLower, b \in FieldValues(CutItems) :
           doc = MakeDoc((K_lblp_lower :> a) @@ (K_cuttingPlaneBendInfo :> b))

\* doc varies one scalar field
IsDocScalars(doc) ==
    \E a \in PlainLower, b \in {Absent, None, Num(5), List(<<Num(1)>>)},
       k \in {K_ROOT_LP_PRIOR_ADDING_CUTS, K_OUR_ilp_objective, K_OUR_ilp_time} :
        doc = MakeDoc((K_lblp_lower :> a) @@ (k :> b))

IsDoc(doc) == IsDocTimes(doc) \/ IsDocCore(doc) \/ IsDocStages(doc) \/ IsDocScalars(doc)

\* the run the record is built for: datasets[7], base_conditions[1]
F_jy_c101 == <<"j", "y", "_", "c", "1", "0", "1", ".", "t", "x", "t">>

InitExtract ==
    /\ pc = "extract"
    /\ IsDoc(data)
    /\ results_df = NoValue /\ record = NoValue
    /\ IdleName /\ IdleParse /\ IdleLoad /\ IdleQuery

\* process_iteration_data returns a table
ExtractReturns ==
    /\ pc = "extract"
    /\ process_iteration_data(data).ok
    /\ results_df' = process_iteration_data(data).v
    /\ pc' = "extracted"
    /\ UNCHANGED <<data, record, nameVars, parseVars, loadVars, queryVars>>

\* process_iteration_data raises
ExtractRaises ==
    /\ pc = "extract"
    /\ ~process_iteration_data(data).ok
    /\ pc' = "extract_raised"
    /\ UNCHANGED <<data, results_df, record, nameVars, parseVars, loadVars, queryVars>>

\* the summary record is built
SummaryReturns ==
    /\ pc = "extracted"
    /\ ~RecordRaises(data, results_df)
    /\ record' = BuildRecord(datasets[7], base_conditions[1], F_jy_c101, data, results_df)
    /\ pc' = "summarized"
    /\ UNCHANGED <<data, results_df, nameVars, parseVars, loadVars, queryVars>>

\* building the summary record raises
SummaryRaises ==
    /\ pc = "extracted"
    /\ RecordRaises(data, results_df)
    /\ pc' = "summary_raised"
    /\ UNCHANGED <<data, results_df, record, nameVars, parseVars, loadVars, queryVars>>

NextExtract == ExtractReturns \/ ExtractRaises \/ SummaryReturns \/ SummaryRaises

SpecExtract == InitExtract /\ [][NextExtract]_vars

-----------------------------------------------------------------------------
(* Specification SpecLoad: load_ablation_data over a directory tree.       *)

D_X1_25   == <<"X", "1", "_", "n", "u", "m", "C", "u", "s", "t", "_", "2", "5">>
C_other   == <<"o", "t", "h", "e", "r">>
F_jy_rc108_better == <<"j", "y", "_", "r", "c", "1", "0", "8", "_", "b", "e", "t", "t",
      "e", "r", ".", "j", "s", "o", "n">>
F_c101    == <<"c", "1", "0", "1", ".", "t", "x", "t">>

FileEntry(dataset, condition, name, file) ==
    [dataset |-> dataset, condition |-> condition, name |-> name,
     kind |-> "file", file |-> file]
DirEntry(dataset, condition, name, json_files) ==
    [dataset |-> dataset, condition |-> condition, name |-> name,
     kind |-> "dir", json_files |-> json_files]
OtherEntry(dataset, condition, name) ==
    [dataset |-> dataset, condition |-> condition, name |-> name,
     kind |-> "other"]

\* every kind of entry, at one place
EntriesAt(dataset, condition, name) ==
    { FileEntry(dataset, condition, name, File(TRUE, t)) : t \in FileTexts }
    \cup
    { FileEntry(dataset, condition, name, File(FALSE, <<>>)),
      DirEntry(dataset, condition, name, <<File(TRUE, T_two)>>),
      DirEntry(dataset, condition, name, <<>>),
      OtherEntry(dataset, condition, name) }

\* a well-formed run at other places: another dataset, another condition, a
\* name without the jy_ prefix, a condition and a dataset the loader does
\* not know
EntriesElsewhere ==
    { FileEntry(D_C1_100, C_normal, F_jy_c101, File(TRUE, T_two)),
      FileEntry(D_RC1_25, C_no_cuts_or_graphs, F_jy_c101, File(TRUE, T_two)),
      FileEntry(D_RC1_25, C_normal, F_c101, File(TRUE, T_two)),
      FileEntry(D_RC1_25, C_other, F_jy_c101, File(TRUE, T_two)),
      FileEntry(D_X1_25, C_normal, F_jy_c101, File(TRUE, T_two)) }

Entries ==
    EntriesAt(D_RC1_25, C_normal, F_jy_c101)
    \cup EntriesAt(D_RC1_25, C_normal, F_jy_rc108_better)
    \cup EntriesElsewhere

Place(entry) == <<entry.dataset, entry.condition, entry.name>>

\* no path occurs twice in a listing
IsListing(es) ==
    \A i, j \in 1..Len(es) : i # j => Place(es[i]) # Place(es[j])

InitLoadFrom(entries) ==
    /\ pc = "load"
    /\ \/ \E n \in 0..MaxEntries : \E es \in [1..n -> entries] :
              /\ IsListing(es)
              /\ corpus = [base_exists |-> TRUE, entries |-> es]
       \/ corpus = [base_exists |-> FALSE, entries |-> <<>>]
    /\ file_idx = 0
    /\ all_results = <<>>
    /\ catalog = NoValue
    /\ IdleName /\ IdleParse /\ IdleExtract /\ IdleQuery

InitLoad == InitLoadFrom(Entries)

\* the entry the loop of line 217 is about to handle
Remaining == file_idx < Len(WorkList(corpus))
CurrentEntry == corpus.entries[WorkList(corpus)[file_idx + 1]]

\* lines 178-180: the base directory does not exist
ReturnNoBase ==
    /\ pc = "load"
    /\ ~corpus.base_exists
    /\ catalog' = EmptyFrame
    /\ pc' = "loaded"
    /\ UNCHANGED <<corpus, file_idx, all_results, nameVars, parseVars, extractVars, queryVars>>

\* lines 228, 230, 233: continue without a document
SkipEntry ==
    /\ pc = "load" /\ corpus.base_exists /\ Remaining
    /\ ~HasData(CurrentEntry)
    /\ file_idx' = file_idx + 1
    /\ UNCHANGED <<pc, corpus, all_results, catalog, nameVars, parseVars,
                 extractVars, queryVars>>

\* lines 276-278: processing raised, the entry is dropped
EntryFails ==
    /\ pc = "load" /\ corpus.base_exists /\ Remaining
    /\ HasData(CurrentEntry)
    /\ ProcessingRaises(CurrentEntry)
    /\ file_idx' = file_idx + 1
    /\ UNCHANGED <<pc, corpus, all_results, catalog, nameVars, parseVars,
                 extractVars, queryVars>>

\* line 274: the record is appended
AppendRecord ==
    /\ pc = "load" /\ corpus.base_exists /\ Remaining
    /\ HasData(CurrentEntry)
    /\ ~ProcessingRaises(CurrentEntry)
    /\ all_results' = Append(all_results, EntryRecord(CurrentEntry))
    /\ file_idx' = file_idx + 1
    /\ UNCHANGED <<pc, corpus, catalog, nameVars, parseVars, extractVars, queryVars>>

\* lines 280-284: the loops are over, the catalog is returned
ReturnCatalog ==
    /\ pc = "load" /\ corpus.base_exists /\ ~Remaining
    /\ catalog' = IF all_results = <<>> THEN EmptyFrame ELSE all_results
    /\ pc' = "loaded"
    /\ UNCHANGED <<corpus, file_idx, all_results, nameVars, parseVars, extractVars, queryVars>>

NextLoad ==
    ReturnNoBase \/ SkipEntry \/ EntryFails \/ AppendRecord \/ ReturnCatalog

SpecLoad == InitLoad /\ [][NextLoad]_vars

-----------------------------------------------------------------------------
(* The catalog queries.  The catalog is the sequence of its records, in    *)
(* the order the loader appended them.                                     *)

\* characters in the order of their code points, which is the order Python
\* compares them in
Alphabet ==
    <<".", "0", "1", "2", "3", "4", "5", "6", "7", "8", "9",
      "A", "B", "C", "D", "E", "F", "G", "H", "I", "J", "K", "L", "M",
      "N", "O", "P", "Q", "R", "S", "T", "U", "V", "W", "X", "Y", "Z",
      "_",
      "a", "b", "c", "d", "e", "f", "g", "h", "i", "j", "k", "l", "m",
      "n", "o", "p", "q", "r", "s", "t", "u", "v", "w", "x", "y", "z">>
Ord(c) == CHOOSE i \in 1..Len(Alphabet) : Alphabet[i] = c

\* a < b on str
StrLess(a, b) ==
    \E k \in 1..(Len(b)) :
        /\ k <= Len(a) + 1
        /\ \A j \in 1..(k - 1) : a[j] = b[j]
        /\ IF k = Len(a) + 1 THEN TRUE ELSE Ord(a[k]) < Ord(b[k])

\* df[mask], the rows the mask selects in their order, is SelectSeq

\* Series.unique(): the distinct values, in order of first appearance
RECURSIVE Unique(_)
Unique(xs) ==
    IF xs = <<>> THEN <<>>
    ELSE LET init == Unique(DropLast(xs, 1))
             last == xs[Len(xs)] IN
         IF \E i \in 1..Len(init) : init[i] = last THEN init
         ELSE Append(init, last)

\* sorted() on a list of str
RECURSIVE Sorted(_)
Insert(x, ys) ==
    LET before == SelectSeq(ys, LAMBDA y : ~StrLess(x, y))
        after  == SelectSeq(ys, LAMBDA y : StrLess(x, y)) IN
    before \o <<x>> \o after
Sorted(xs) ==
    IF xs = <<>> THEN <<>>
    ELSE Insert(xs[Len(xs)], Sorted(DropLast(xs, 1)))

\* line 292 without the sort: the distinct instances in catalog order
get_available_instances_unsorted(df, num_cust, condition) ==
    LET filtered == SelectSeq(df, LAMBDA r : /\ r.num_cust = num_cust
                                                /\ r.condition = condition) IN
    Unique([i \in 1..Len(filtered) |-> filtered[i].instance])

\* lines 287-292
get_available_instances(df, num_cust, condition) ==
    LET filtered == SelectSeq(df, LAMBDA r : /\ r.num_cust = num_cust
                                                /\ r.condition = condition) IN
    Sorted(Unique([i \in 1..Len(filtered) |-> filtered[i].instance]))

\* what get_iteration_data returns: a table, or None
NoTable == [table |-> FALSE]
Table(df) == [table |-> TRUE, v |-> df]

\* lines 295-310 taking the first matching record with a non-empty table
get_iteration_data_first_nonempty(df, instance, condition) ==
    LET filtered == SelectSeq(df, LAMBDA r : /\ r.instance = instance
                                             /\ r.condition = condition
                                             /\ ~FrameEmpty(r.iteration_data)) IN
    IF filtered = <<>> THEN NoTable
    ELSE Table(filtered[1].iteration_data)

\* lines 295-310
get_iteration_data(df, instance, condition) ==
    LET filtered == SelectSeq(df, LAMBDA r : /\ r.instance = instance
                                             /\ r.condition = condition) IN
    IF filtered = <<>> THEN NoTable
    ELSE IF ~FrameEmpty(filtered[1].iteration_data)
         THEN Table(filtered[1].iteration_data)
         ELSE NoTable

-----------------------------------------------------------------------------
(* Specification SpecQuery: the dashboard loads the catalog, stops when it *)
(* is empty (dashboard.py, lines 35-38) and otherwise queries it.          *)

\* the directory trees of the loader, and those with a second file of the
\* instance c101 next to the first
F_jy_c101_json == <<"j", "y", "_", "c", "1", "0", "1", ".", "j", "s", "o", "n">>
QueryEntries ==
    Entries
    \cup { FileEntry(D_RC1_25, C_normal, F_jy_c101_json, File(TRUE, T_two)) }

InitQuery == InitLoadFrom(QueryEntries)

\* the arguments the queries are made with
QueryNumCust == {25, 50, 100}
QueryConditions == {C_normal, C_no_cuts_or_graphs, C_other}
QueryInstances ==
    {extract_instance_name(F_jy_c101),
     extract_instance_name(F_jy_rc108_better), <<"x">>}

\* dashboard.py, lines 36-38: df.empty, st.stop()
StopOnEmpty ==
    /\ pc = "loaded"
    /\ catalog = EmptyFrame
    /\ pc' = "stopped"
    /\ UNCHANGED <<loadVars, queryVars, nameVars, parseVars, extractVars>>

\* dashboard.py, line 63
AvailableInstances ==
    /\ pc = "loaded"
    /\ catalog # EmptyFrame
    /\ \E num_cust \in QueryNumCust, condition \in QueryConditions :
           /\ query' = [op |-> "get_available_instances",
                        num_cust |-> num_cust, condition |-> condition]
           /\ answer' = get_available_instances(catalog, num_cust, condition)
    /\ pc' = "queried"
    /\ UNCHANGED <<loadVars, nameVars, parseVars, extractVars>>

\* dashboard.py, lines 82 and 282
IterationData ==
    /\ pc = "loaded"
    /\ catalog # EmptyFrame
    /\ \E instance \in QueryInstances, condition \in QueryConditions :
           /\ query' = [op |-> "get_iteration_data",
                        instance |-> instance, condition |-> condition]
           /\ answer' = get_iteration_data(catalog, instance, condition)
    /\ pc' = "queried"
    /\ UNCHANGED <<loadVars, nameVars, parseVars, extractVars>>

NextQuery ==
    NextLoad \/ StopOnEmpty \/ AvailableInstances \/ IterationData

SpecQuery == InitQuery /\ [][NextQuery]_vars

-----------------------------------------------------------------------------
(* Claims about the catalog queries.                                       *)

\* positions of the catalog records a get_iteration_data query matches
MatchingRows ==
    { k \in 1..Len(catalog) : /\ catalog[k].instance = query.instance
                              /\ catalog[k].condition = query.condition }
FirstMatch == CHOOSE k \in MatchingRows : \A m \in MatchingRows : k <= m

\* C12: get_iteration_data(catalog, instance, condition) returns the
\* iteration table of the first record, in catalog order, that matches
\* (instance, condition) when that table is not empty; it returns absent
\* when no record matches and when that first record's table is empty,
\* whatever later matching records hold; the catalog stays as loaded.
C12_FirstMatchWins ==
    (pc = "queried" /\ query.op = "get_iteration_data") =>
        /\ IF MatchingRows = {} THEN answer = NoTable
           ELSE IF FrameEmpty(catalog[FirstMatch].iteration_data)
                THEN answer = NoTable
                ELSE answer = Table(catalog[FirstMatch].iteration_data)
        /\ catalog = all_results

\* two records match, the first with an empty table and the second with a
\* table of two rows, and the query returned absent
C12_Witness ==
    /\ pc = "queried"
    /\ query.op = "get_iteration_data"
    /\ Len(catalog) = 2
    /\ MatchingRows = {1, 2}
    /\ FrameEmpty(catalog[1].iteration_data)
    /\ ~FrameEmpty(catalog[2].iteration_data)
    /\ answer = NoTable

\* the instances of the catalog records a get_available_instances query
\* selects
SelectedInstances ==
    { catalog[k].instance :
        k \in { m \in 1..Len(catalog) :
                  /\ catalog[m].num_cust = query.num_cust
                  /\ catalog[m].condition = query.condition } }

\* C13: get_available_instances(catalog, num_cust, condition) returns a
\* sequence in ascending order, without duplicates, whose elements are
\* exactly the instances of the catalog records with that num_cust and that
\* condition.
C13_SortedDistinctExact ==
    (pc = "queried" /\ query.op = "get_available_instances") =>
        /\ \A i, j \in 1..Len(answer) : i < j => ~StrLess(answer[j], answer[i])
        /\ \A i, j \in 1..Len(answer) : i # j => answer[i] # answer[j]
        /\ { answer[i] : i \in 1..Len(answer) } = SelectedInstances

\* two selected records whose instances are in descending order in the
\* catalog are returned in ascending order
C13_Witness ==
    /\ pc = "queried"
    /\ query.op = "get_available_instances"
    /\ Len(catalog) = 2
    /\ Len(answer) = 2
    /\ answer = <<catalog[2].instance, catalog[1].instance>>
    /\ StrLess(answer[1], answer[2])

-----------------------------------------------------------------------------
(* Claims about the record extractor.                                      *)

\* process_iteration_data has returned its table
TableReturned == pc \in {"extracted", "summarized", "summary_raised"}

\* length(lblp_lower), 0 when the field is absent
AnchorLen(doc) ==
    IF K_lblp_lower \in DOMAIN doc.v /\ IsList(doc.v[K_lblp_lower])
    THEN Len(doc.v[K_lblp_lower].v)
    ELSE 0

\* the field is a sequence of exactly n elements
IsArrayOfLen(doc, key, n) ==
    key \in DOMAIN doc.v /\ IsList(doc.v[key]) /\ Len(doc.v[key].v) = n

\* C2: the returned table has exactly length(lblp_lower) rows and its
\* iteration column is 1..N in order; it is empty when lblp_lower is absent
\* or empty.
C2_RowCount ==
    TableReturned =>
        LET n == AnchorLen(data) IN
        IF n = 0 THEN DOMAIN results_df = {}
        ELSE /\ K_iteration \in DOMAIN results_df
             /\ results_df[K_iteration] = [i \in 1..n |-> Num(i)]
             /\ \A c \in DOMAIN results_df : Len(results_df[c]) = n

\* a table of two rows returned for a two-element lblp_lower
C2_Witness ==
    /\ TableReturned
    /\ AnchorLen(data) = 2
    /\ results_df[K_iteration] = <<Num(1), Num(2)>>

\* C3: for N > 0, a core array present with exactly N elements is its column
\* element for element; one that is absent or of another length gives a
\* column missing in every row.
C3_CoreColumns ==
    (TableReturned /\ AnchorLen(data) > 0) =>
        LET n == AnchorLen(data) IN
        \A a \in 1..Len(core_arrays) :
            LET key == core_arrays[a] IN
            /\ key \in DOMAIN results_df
            /\ Len(results_df[key]) = n
            /\ IF IsArrayOfLen(data, key, n)
               THEN \A i \in 1..n : results_df[key][i] = data.v[key].v[i]
               ELSE \A i \in 1..n : IsNa(results_df[key][i])

\* lblp_lower of two elements kept as it is, ub_lp of one element dropped
C3_Witness ==
    /\ TableReturned
    /\ K_lblp_lower \in DOMAIN data.v
    /\ data.v[K_lblp_lower] = List(<<Num(1), Num(2)>>)
    /\ K_ub_lp \in DOMAIN data.v
    /\ data.v[K_ub_lp] = List(<<Num(2)>>)
    /\ results_df[K_lblp_lower] = <<Num(1), Num(2)>>
    /\ results_df[K_ub_lp] = <<NaN, NaN>>

\* C4: extraction never fails: neither the iteration table nor the summary
\* fields raise, whatever the fields of the document hold.
C4_NeverRaises == pc \notin {"extract_raised", "summary_raised"}

\* an entry of an LP time array, missing counted as zero
OrZero(x) == IF IsNa(x) THEN 0 ELSE x.v

\* sum over rows 1..i of (lp_time_LB or 0) + (lp_time_project or 0)
RECURSIVE RunningTotal(_, _, _)
RunningTotal(lb, pj, i) ==
    IF i = 0 THEN 0
    ELSE RunningTotal(lb, pj, i - 1) + OrZero(lb[i]) + OrZero(pj[i])

BothTimesPresent(doc) ==
    /\ AnchorLen(doc) > 0
    /\ IsArrayOfLen(doc, K_lp_time_LB, AnchorLen(doc))
    /\ IsArrayOfLen(doc, K_lp_time_project, AnchorLen(doc))

\* C8: with both LP time arrays present with N elements, cumulative_time at
\* row i is the running sum of the two arrays with a missing entry counted
\* as zero; it is never missing.
C8_CumulativeTime ==
    (TableReturned /\ BothTimesPresent(data)) =>
        \A i \in 1..AnchorLen(data) :
            results_df[K_cumulative_time][i] =
                Num(RunningTotal(data.v[K_lp_time_LB].v,
                                 data.v[K_lp_time_project].v, i))

\* lp_time_LB = [1, 2] and lp_time_project = [1, null] give [2, 4]
C8_Witness ==
    /\ TableReturned
    /\ BothTimesPresent(data)
    /\ data.v[K_lp_time_LB] = List(<<Num(1), Num(2)>>)
    /\ data.v[K_lp_time_project] = List(<<Num(1), None>>)
    /\ results_df[K_cumulative_time] = <<Num(2), Num(4)>>

\* C9: when the document has no lp_time_LB array or no lp_time_project array
\* and N > 0, cumulative_time is missing in every row.
C9_MissingWhenSourceAbsent ==
    ( /\ TableReturned
      /\ AnchorLen(data) > 0
      /\ (K_lp_time_LB \notin DOMAIN data.v \/ K_lp_time_project \notin DOMAIN data.v) )
    => \A i \in 1..AnchorLen(data) : IsNa(results_df[K_cumulative_time][i])

-----------------------------------------------------------------------------
(* Claims about load_ablation_data.                                        *)

\* elements of a sequence, as a set
Range(xs) == { xs[i] : i \in 1..Len(xs) }

\* the entry is a jy_* entry under a recognized dataset/condition directory
IsListed(entry) ==
    /\ entry.dataset \in Range(datasets)
    /\ entry.condition \in Range(base_conditions)
    /\ StartsWith(entry.name, S_jy)

\* the file an entry is read from, if any
HasSource(entry) ==
    \/ entry.kind = "file"
    \/ entry.kind = "dir" /\ entry.json_files # <<>>
SourceFile(entry) ==
    IF entry.kind = "file" THEN entry.file ELSE entry.json_files[1]

\* the entry's file can be read and parsed, holds a non-empty JSON object,
\* and its processing does not raise
WellFormed(entry) ==
    /\ HasSource(entry)
    /\ SourceFile(entry).readable
    /\ ParsedText[SourceFile(entry).text].ok
    /\ IsDict(ParsedText[SourceFile(entry).text].v)
    /\ DOMAIN ParsedText[SourceFile(entry).text].v.v # {}
    /\ ~ProcessingRaises(entry)

\* the record was loaded from this entry
RecordOf(rec, entry) ==
    /\ rec.dataset = entry.dataset
    /\ rec.condition = entry.condition
    /\ rec.instance = extract_instance_name(entry.name)

\* C1: the load returns for every corpus, having handled every entry; an
\* entry that cannot be read or parsed, or whose processing raises,
\* contributes no record, and every other well-formed jy_* entry under a
\* recognized dataset/condition directory contributes exactly one.
C1_FailuresIsolated ==
    (pc = "loaded" /\ corpus.base_exists) =>
        /\ file_idx = Len(WorkList(corpus))
        /\ \A i \in 1..Len(corpus.entries) :
               LET entry == corpus.entries[i]
                   recs  == { k \in 1..Len(catalog) : RecordOf(catalog[k], entry) }
               IN  IF IsListed(entry) /\ WellFormed(entry)
                   THEN Cardinality(recs) = 1
                   ELSE IsListed(entry) => recs = {}
        /\ Len(catalog) =
               Cardinality({ i \in 1..Len(corpus.entries) :
                               IsListed(corpus.entries[i])
                               /\ WellFormed(corpus.entries[i]) })

\* RC1_numCust_25/normal holds one well-formed run and one file that does
\* not parse: the catalog has exactly one record
C1_Witness ==
    /\ pc = "loaded"
    /\ corpus.entries =
           <<FileEntry(D_RC1_25, C_normal, F_jy_c101, File(TRUE, T_two)),
             FileEntry(D_RC1_25, C_normal, F_jy_rc108_better, File(TRUE, T_truncated))>>
    /\ Len(catalog) = 1
    /\ catalog[1].instance = <<"c", "1", "0", "1">>

\* two cells hold the same value, or are both missing
SameCell(a, b) == (IsNa(a) /\ IsNa(b)) \/ a = b

\* lblp_lower of a document, empty when absent
LowerBounds(doc) ==
    IF K_lblp_lower \in DOMAIN doc.v /\ IsList(doc.v[K_lblp_lower])
    THEN doc.v[K_lblp_lower].v
    ELSE <<>>

\* the last entry of a sequence, missing for the empty sequence
LastEntry(xs) == IF xs = <<>> THEN NaN ELSE xs[Len(xs)]

\* every record and the entry it was loaded from satisfy P
ForEachRecord(P(_, _)) ==
    pc = "loaded" =>
        \A k \in 1..Len(catalog) : \A i \in 1..Len(corpus.entries) :
            (IsListed(corpus.entries[i]) /\ RecordOf(catalog[k], corpus.entries[i]))
            => P(catalog[k], EntryData(corpus.entries[i]))

\* C10 as stated: final_lb of every record is the last non-missing entry of
\* the run's lblp_lower, missing when lblp_lower is empty or absent.
C10_LastNonMissing ==
    ForEachRecord(LAMBDA rec, doc :
        SameCell(rec.final_lb, LastNonMissing(LowerBounds(doc))))

\* C10 amended: final_lb of every record is the last entry of the run's
\* lblp_lower, missing when that entry is null and when lblp_lower is empty
\* or absent.
C10_LastEntry ==
    ForEachRecord(LAMBDA rec, doc :
        SameCell(rec.final_lb, LastEntry(LowerBounds(doc))))

\* a record of a run with lblp_lower = [1, 2] has final_lb = 2
C10_Witness ==
    /\ pc = "loaded"
    /\ \E k \in 1..Len(catalog) :
           /\ catalog[k].iterations = 2
           /\ catalog[k].iteration_data[K_lblp_lower] = <<Num(1), Num(2)>>
           /\ catalog[k].final_lb = Num(2)

\* the part of a dataset name before its first underscore: the type code
\* that the name C1_numCust_25, ..., RC2_numCust_50 carries
TypePrefix(dataset) ==
    IF \E i \in 1..Len(dataset) : dataset[i] = "_"
    THEN SubSeq(dataset, 1,
                (CHOOSE i \in 1..Len(dataset) :
                    /\ dataset[i] = "_"
                    /\ \A j \in 1..(i - 1) : dataset[j] # "_") - 1)
    ELSE dataset

\* C11: every record loaded from a dataset of the loader's list carries the
\* type code that is the dataset name's prefix before _numCust_ (C1, C2, R1,
\* R2, RC1 or RC2), and never the code Unknown.
C11_TypeFromPrefix ==
    \A k \in 1..Len(all_results) :
        all_results[k].dataset \in Range(datasets) =>
            /\ all_results[k].instance_type = TypePrefix(all_results[k].dataset)
            /\ all_results[k].instance_type # S_Unknown

-----------------------------------------------------------------------------
(* Claims about extract_instance_name.                                     *)

\* The rules of the normalizer as the specification words them: the BACK_jy_
\* and jy_ prefixes are removed at the front only, the _better suffix at the
\* end only, every jy_ occurrence is removed in the _better case.
RuleName(fname) ==
    LET base_name == StripExtension(fname) IN
    IF StartsWith(base_name, S_BACK_jy)
    THEN DropFirst(base_name, Len(S_BACK_jy)) \o S_BACK
    ELSE IF EndsWith(base_name, S_better)
    THEN Replace(DropLast(base_name, Len(S_better)), S_jy, <<>>) \o S_better
    ELSE IF StartsWith(base_name, S_jy)
    THEN DropFirst(base_name, Len(S_jy))
    ELSE base_name

\* C6: for every file name the normalizer returns what the ordered rules give:
\* one extension stripped, then the first matching rule alone, removing the
\* leading BACK_jy_ / jy_ prefix only and the trailing _better suffix only.
C6_RulesInOrder == pc \in {"named", "renamed"} => name1 = RuleName(filename)

\* A stem is an instance identifier: no underscore, no dot, and not "jy".
IsStem(s) ==
    /\ \A i \in 1..Len(s) : s[i] \notin {"_", "."}
    /\ s # <<"j", "y">>

\* A file name of a documented shape: an optional jy_ or BACK_jy_ prefix, a
\* stem, an optional _better suffix, an optional .txt or .json extension.
Canonical(fname) ==
    \E p \in {<<>>, S_jy, S_BACK_jy} :
    \E s \in {<<>>, S_better} :
    \E e \in {<<>>, S_txt, S_json} :
        /\ Len(fname) >= Len(p) + Len(s) + Len(e)
        /\ StartsWith(fname, p)
        /\ EndsWith(fname, s \o e)
        /\ IsStem(SubSeq(fname, Len(p) + 1, Len(fname) - Len(s) - Len(e)))

\* C7 as stated: normalizing a normalized name changes nothing, for every
\* file name.
C7_Idempotent == pc = "renamed" => name2 = name1

\* C7 amended: normalizing a normalized name changes nothing, for every file
\* name of a documented shape.
C7_IdempotentOnCanonical ==
    (pc = "renamed" /\ Canonical(filename)) => name2 = name1

\* a documented name that the normalizer rewrites, normalized twice
C7_Witness ==
    /\ pc = "renamed"
    /\ filename = S_jy \o <<"c">> \o S_better \o S_json
    /\ name1 = <<"c">> \o S_better
    /\ name2 = name1

=============================================================================
